---- MODULE Spec2Model ----
(***************************************************************************)
(* Job dispatch and queue model of the Sia backend.                        *)
(*                                                                         *)
(* The persistent store is modelled as the gpr_jobs table (a set of rows   *)
(* keyed by (id, version)), the gpr_agents table and the per-(org, queue)  *)
(* pause flags.  Every REST handler and the Preprocess activity is an      *)
(* action that applies the handler's database statements in source order. *)
(* Spec runs the handlers one after another; SpecPar interleaves the       *)
(* individual database statements of concurrent invocations, because the   *)
(* source wraps none of them in a transaction.  SpecHealth follows the     *)
(* writers of an agent's status, SpecReg the statements of registerAgent   *)
(* next to the agent routes, SpecRetry a job from creation to its retry.   *)
(***************************************************************************)
EXTENDS Integers, FiniteSets, Sequences, TLC

(* ------------------------------ bounds --------------------------------- *)

\* Number of distinct job ids that POST /jobs can create.
MaxJobs == 3

\* Highest version number a PUT may write for one job.
MaxVersion == 2

\* Highest value the consecutive_failures counter is followed to.
MaxFailures == 4

\* Largest position a reprioritize request or an explicit order_in_queue asks for.
MaxPosition == 3

\* Number of requests and activity invocations one behaviour serves.
MaxSteps == 5

\* Number of Preprocess invocations whose statements may interleave.
MaxInvocations == 2

\* Longest user_comments list a PUT sends.
MaxComments == 1

\* registerAgent calls that may overlap
MaxRegistrations == 2

\* POST /jobs requests that can be in flight at the same time.
MaxCreates == 3

(* ------------------------------ domains -------------------------------- *)

\* null of a varchar / enum column
Null == "null"

\* jobId: null in a Preprocess result
NoJob == 0

\* A field the request body leaves out.
Undefined == "undefined"

JobIds == 1..MaxJobs

AgentIds == {"a1", "a2"}

Orgs == {"o1"}

QueueTypes == {"rework", "backlog"}

\* The queue loop with its two queue types in the other order.
queueTypesBacklogFirst == <<"backlog", "rework">>

\* The iteration order of the queue loop of Preprocess.
queueTypes == <<"rework", "backlog">>

JobStatuses == {"queued", "in-progress", "in-review", "completed", "failed", "archived"}

VARIABLES
  jobs,         \* gpr_jobs: set of rows, one per (id, version)
  agents,       \* gpr_agents: agent id -> row
  queueStatus,  \* queue pause rows: <<org, queueType>> -> "none" | "paused" | "running"
  reply,        \* what the most recent handler / activity invocation returned
  inv,          \* in-flight Preprocess invocations (statement-level interleaving)
  rp,           \* in-flight POST /jobs/:id/reprioritize request (statement-level)
  steps,        \* number of invocations served so far
  schedules,    \* workflow engine: agent id -> state of its dispatch / health-check schedules
  reg,          \* in-flight registerAgent calls (statement-level interleaving)
  wf,           \* queueMonitorWorkflow: agent id -> the latest firing of its schedule
  children,     \* workflow engine: ids of the child workflows that are running
  cr            \* in-flight POST /jobs requests (statement-level interleaving)

vars == <<jobs, agents, queueStatus, reply, inv, rp, steps, schedules, reg, wf, children, cr>>


(* ------------------------- rows and projections ------------------------ *)

\* A freshly inserted gpr_jobs row; agent_id defaults to null, updated_at to now.
\* old = TRUE means updated_at is more than five minutes in the past.  The
\* column is only ever read by the orphan scan, and only on in-progress rows.
NewJob(id, version, orgId, status, queueType, orderInQueue, uas, userInput, nComments) ==
  [id |-> id, version |-> version, orgId |-> orgId, status |-> status,
   queueType |-> queueType, orderInQueue |-> orderInQueue, agentId |-> Null,
   userAcceptanceStatus |-> uas, userInput |-> userInput,
   userComments |-> nComments, codeGenerationLogs |-> Null,
   codeVerificationLogs |-> Null, old |-> FALSE]

\* select ... where id = :id and org_id = :org order by version desc limit 1
\* (a set with at most one element, the handler's currentJob)
Latest(J, id, orgId) ==
  {r \in J : /\ r.id = id
             /\ r.orgId = orgId
             /\ \A s \in J : (s.id = id /\ s.orgId = orgId) => s.version <= r.version}

\* The latest-version rows of the table, whatever the org.
LatestRows(J) == {r \in J : \A s \in J : s.id = r.id => s.version <= r.version}

\* getQueueJobs: every row (of any version) that is queued in (org, queueType).
getQueueJobs(J, orgId, queueType) ==
  {r \in J : r.orgId = orgId /\ r.status = "queued" /\ r.queueType = queueType}

getNextQueuePosition(J, orgId, queueType) ==
  Cardinality(getQueueJobs(J, orgId, queueType))

reprioritizeQueueAfterRemoval(J, orgId, queueType, removedPosition) ==
  {IF /\ r.orgId = orgId
      /\ r.status = "queued"
      /\ r.queueType = queueType
      /\ r.orderInQueue > removedPosition
   THEN [r EXCEPT !.orderInQueue = @ - 1, !.old = FALSE]
   ELSE r : r \in J}

removeJobFromQueue(J, id, orgId, version) ==
  {IF r.id = id /\ r.version = version /\ r.orgId = orgId
   THEN [r EXCEPT !.queueType = Null, !.orderInQueue = -1, !.old = FALSE]
   ELSE r : r \in J}

(* ------------------------------ replies -------------------------------- *)

\* The value the most recent invocation returned: op names the handler, agent
\* the agent of a Preprocess or ping, code the HTTP status or the branch taken,
\* jobId the job of the request (REST) or the job returned (Preprocess),
\* queueType the queue a Preprocess invocation claimed from, hook the request
\* the invocation made to queueWorkflowService ("none", "start", "pause", "resume").
Reply(op, agent, code, jobId, queueType) ==
  [op |-> op, agent |-> agent, code |-> code, jobId |-> jobId, queueType |-> queueType,
   hook |-> "none", orgId |-> Null]

\* The result of a Preprocess invocation: { jobId, queueType, orgId }.
PreprocessReply(agent, code, jobId, queueType, orgId) ==
  [Reply("preprocess", agent, code, jobId, queueType) EXCEPT !.orgId = orgId]

\* The reply of an agent route, with the schedule request it made.
AgentReply(op, agent, code, hook) ==
  [Reply(op, agent, code, NoJob, Null) EXCEPT !.hook = hook]

NoReply == Reply("none", Null, "ok", NoJob, Null)

(* ------------------- Preprocess: database statements ------------------- *)

\* status = in-progress and (agent_id = :agent or updated_at < now - 5 min), in the org
SelectOrphans(J, orgId, agentId) ==
  {r \in J : /\ r.orgId = orgId
             /\ r.status = "in-progress"
             /\ (r.agentId = agentId \/ r.old)}

\* update gpr_jobs set status = queued, agent_id = null, updated_at = now where id = :id
\* (no version in the where clause: every version row of the job is written)
ResetOrphan(J, id) ==
  {IF r.id = id
   THEN [r EXCEPT !.status = "queued", !.agentId = Null, !.old = FALSE]
   ELSE r : r \in J}

RECURSIVE ResetOrphans(_, _)
ResetOrphans(J, ids) ==
  IF ids = {} THEN J
  ELSE LET id == CHOOSE i \in ids : TRUE
       IN ResetOrphans(ResetOrphan(J, id), ids \ {id})

\* findFirst where agent_id = :agent and status = in-progress
FindInProgress(J, agentId) ==
  {r \in J : r.agentId = agentId /\ r.status = "in-progress"}

\* The pause lookup without its queue_type filter: any pause row of the org.
IsPausedAnyQueue(QS, orgId, queueType) ==
  \E q \in QueueTypes : QS[<<orgId, q>>] = "paused"

\* queueStatus?.isPaused: a missing row is not paused
IsPaused(QS, orgId, queueType) == QS[<<orgId, queueType>>] = "paused"

\* findFirst ... order by order_in_queue asc: any row with the least position
NextJobs(J, orgId, queueType) ==
  LET Q == {r \in J : r.orgId = orgId /\ r.status = "queued" /\ r.queueType = queueType}
  IN {r \in Q : \A s \in Q : r.orderInQueue <= s.orderInQueue}

\* update gpr_jobs set status = in-progress, agent_id = :agent, updated_at = now where id = :id
ClaimJob(J, id, agentId) ==
  {IF r.id = id
   THEN [r EXCEPT !.status = "in-progress", !.agentId = agentId, !.old = FALSE]
   ELSE r : r \in J}

\* The queue loop: the possible <<table, jobId, queueType>> results from index i on.
RECURSIVE QueueLoop(_, _, _, _, _)
QueueLoop(J, QS, orgId, agentId, i) ==
  IF i > Len(queueTypes) THEN {<<J, NoJob, Null>>}
  ELSE LET q == queueTypes[i]
       IN IF IsPaused(QS, orgId, q) THEN QueueLoop(J, QS, orgId, agentId, i + 1)
          ELSE IF NextJobs(J, orgId, q) = {} THEN QueueLoop(J, QS, orgId, agentId, i + 1)
          ELSE {<<ClaimJob(J, n.id, agentId), n.id, q>> : n \in NextJobs(J, orgId, q)}

\* agent heartbeat write of the in-progress branch
TouchAgent(A, agentId) ==
  [A EXCEPT ![agentId].consecutiveFailures = 0]

(* --------------------------- initial state ----------------------------- *)

\* Agents exist as registration leaves them: active, no failures.
AgentOrg(a) == "o1"

\* The host each of them registered from.
AgentHost(a) == IF a = "a1" THEN "h1" ELSE "h2"

InitAgents ==
  [a \in AgentIds |-> [orgId |-> AgentOrg(a), host |-> AgentHost(a),
                       status |-> "active", consecutiveFailures |-> 0]]

\* The ids (agent-<uuid>) that registerAgent and POST /agents give to the rows
\* they insert, in the order they are handed out.
NewAgentIds == <<"a3", "a4">>

AllAgentIds == AgentIds \cup {NewAgentIds[i] : i \in DOMAIN NewAgentIds}

\* registerAgent started their schedules; an agent not yet inserted has none.
InitSchedules == [a \in AllAgentIds |-> IF a \in AgentIds THEN "running" ELSE "none"]

RegIds == 1..MaxRegistrations

\* A registerAgent call that has not started: its locals are unset.
RegIdle ==
  [pc |-> "idle", apiKey |-> Null, hostname |-> Null, orgId |-> Null,
   existingAgents |-> {}, agentId |-> Null, hook |-> "none", threw |-> FALSE,
   success |-> FALSE]

InitReg == [r \in RegIds |-> RegIdle]

InvIds == 1..MaxInvocations

\* A Preprocess invocation that has not started: its locals are unset.
InvIdle ==
  [pc |-> "idle", agentId |-> Null, orphanJobs |-> {}, qi |-> 1,
   nextJob |-> NoJob, jobId |-> NoJob, queueType |-> Null]

InitInv == [p \in InvIds |-> InvIdle]

\* The schedule of an agent has not fired: no Preprocess result, nothing returned
\* (jobId = NoJob and queueType = Null stand for a result without these fields).
WfIdle ==
  [pc |-> "idle", result |-> [jobId |-> NoJob, queueType |-> Null, orgId |-> Null],
   workflowId |-> Null, processed |-> FALSE, jobId |-> NoJob, queueType |-> Null]

InitWf == [a \in AgentIds |-> WfIdle]

CrIds == 1..MaxCreates

\* A POST /jobs request that has not started: nextBacklogPosition is unset.
CrIdle == [pc |-> "idle", orgId |-> Null, nextBacklogPosition |-> 0]

InitCr == [c \in CrIds |-> CrIdle]

\* No reprioritize request in flight.
RpIdle == [pc |-> "idle", id |-> NoJob, newPosition |-> 0, job |-> {}, plan |-> {}]

Init ==
  /\ jobs = {}
  /\ agents = InitAgents
  /\ queueStatus = [k \in Orgs \X QueueTypes |-> "none"]
  /\ reply = NoReply
  /\ inv = InitInv
  /\ rp = RpIdle
  /\ steps = 0
  /\ schedules = InitSchedules
  /\ reg = InitReg
  /\ wf = InitWf
  /\ children = {}
  /\ cr = InitCr

\* One more invocation is served (behaviours are cut at MaxSteps invocations).
Served == steps < MaxSteps /\ steps' = steps + 1

(* ------------------------ handlers, run serially ----------------------- *)

\* POST /jobs: the new job goes to the tail of the org's backlog.
CreateJob(orgId) ==
  /\ \E id \in JobIds :
       /\ \A r \in jobs : r.id # id
       /\ \A k \in JobIds : k < id => \E r \in jobs : r.id = k
       /\ jobs' = jobs \cup
            {NewJob(id, 1, orgId, "queued", "backlog",
                    getNextQueuePosition(jobs, orgId, "backlog"),
                    "not_reviewed", "p1", 0)}
       /\ reply' = Reply("POST /jobs", Null, "201", id, Null)
  /\ Served
  /\ UNCHANGED <<agents, queueStatus, inv, rp, schedules, reg, wf, children, cr>>

\* The first test of preprocessActivity with its status half left out.
AgentMissing(A, a) == a \notin DOMAIN A

\* !agent || agent.status !== 'active'
AgentUnavailable(A, a) == a \notin DOMAIN A \/ A[a].status # "active"

\* preprocessActivity, all statements of one invocation without interference.
\* The pause lookup names the table schema.queueStatus while schema.ts exports
\* it as queueStates: where that name does not resolve, the first lookup throws
\* and the invocation ends after the orphan writes with no job (code "error").
PreprocessStatements(a) ==
  /\ IF AgentUnavailable(agents, a)
     THEN /\ reply' = PreprocessReply(a, "inactive", NoJob, Null, Null)
          /\ UNCHANGED <<jobs, agents>>
     ELSE LET orgId == agents[a].orgId
              J1 == ResetOrphans(jobs, {r.id : r \in SelectOrphans(jobs, orgId, a)})
          IN IF FindInProgress(J1, a) # {}
             THEN /\ jobs' = J1
                  /\ agents' = TouchAgent(agents, a)
                  /\ reply' = PreprocessReply(a, "heartbeat", NoJob, Null, orgId)
             ELSE \/ \E out \in QueueLoop(J1, queueStatus, orgId, a, 1) :
                       /\ jobs' = out[1]
                       /\ reply' = PreprocessReply(a, "ok", out[2], out[3], orgId)
                       /\ UNCHANGED agents
                  \/ /\ jobs' = J1
                     /\ reply' = PreprocessReply(a, "error", NoJob, Null, Null)
                     /\ UNCHANGED agents
  /\ UNCHANGED <<queueStatus, inv, rp, schedules, reg>>

\* One invocation of the activity, counted among the invocations served.
PreprocessActivity(a) ==
  /\ PreprocessStatements(a)
  /\ Served

\* The activity invoked on its own, outside a workflow.
Preprocess(a) ==
  /\ PreprocessActivity(a)
  /\ UNCHANGED <<wf, children, cr>>

\* Five minutes pass in which no in-progress row is written.
Tick ==
  /\ \E r \in jobs : r.status = "in-progress" /\ ~r.old
  /\ jobs' = {IF r.status = "in-progress" THEN [r EXCEPT !.old = TRUE] ELSE r : r \in jobs}
  /\ UNCHANGED <<agents, queueStatus, reply, inv, rp, steps, schedules, reg, wf, children, cr>>

\* POST /queues/:queueType/pause and /resume (queueWorkflowService.pauseQueue / resumeQueue)
SetQueuePaused(orgId, queueType, paused) ==
  /\ queueStatus' = [queueStatus EXCEPT ![<<orgId, queueType>>] =
                       IF paused THEN "paused" ELSE "running"]
  /\ queueStatus' # queueStatus
  /\ reply' = Reply(IF paused THEN "POST /queues/pause" ELSE "POST /queues/resume",
                    Null, "200", NoJob, queueType)
  /\ Served
  /\ UNCHANGED <<jobs, agents, inv, rp, schedules, reg, wf, children, cr>>

\* DELETE /jobs/:id
ArchiveJob(id, orgId) ==
  /\ IF Latest(jobs, id, orgId) = {}
     THEN /\ reply' = Reply("DELETE /jobs/:id", Null, "404", id, Null)
          /\ UNCHANGED jobs
     ELSE LET currentJob == CHOOSE r \in Latest(jobs, id, orgId) : TRUE
          IN IF currentJob.status = "archived"
             THEN /\ reply' = Reply("DELETE /jobs/:id", Null, "400", id, Null)
                  /\ UNCHANGED jobs
             ELSE /\ jobs' = {IF r.id = id /\ r.version = currentJob.version /\ r.orgId = orgId
                              THEN [r EXCEPT !.status = "archived", !.old = FALSE]
                              ELSE r : r \in jobs}
                  /\ reply' = Reply("DELETE /jobs/:id", Null, "200", id, Null)
  /\ Served
  /\ UNCHANGED <<agents, queueStatus, inv, rp, schedules, reg, wf, children, cr>>

\* POST /jobs/:id/execute; executing is the answer of jobExecutionService.isExecuting,
\* scheduled tells whether jobExecutionService.scheduleJob returned or threw (the
\* queue writes precede it either way).
ExecuteJob(id, orgId, executing, scheduled) ==
  /\ IF Latest(jobs, id, orgId) = {}
     THEN /\ reply' = Reply("POST /jobs/:id/execute", Null, "404", id, Null)
          /\ UNCHANGED jobs
     ELSE LET job == CHOOSE r \in Latest(jobs, id, orgId) : TRUE
          IN IF job.status # "queued" \/ job.queueType = Null \/ executing
             THEN /\ reply' = Reply("POST /jobs/:id/execute", Null, "400", id, Null)
                  /\ UNCHANGED jobs
             ELSE /\ jobs' = reprioritizeQueueAfterRemoval(
                               removeJobFromQueue(jobs, id, orgId, job.version),
                               orgId, job.queueType, job.orderInQueue)
                  /\ reply' = Reply("POST /jobs/:id/execute", Null,
                                    IF scheduled THEN "202" ELSE "500", id, Null)
  /\ Served
  /\ UNCHANGED <<agents, queueStatus, inv, rp, schedules, reg, wf, children, cr>>

(* ------------------------ queueMonitorWorkflow ------------------------- *)

\* The test of step 2 without its conditions: a child for every result.
HasJobAlways(result) == TRUE

\* result.jobId && result.queueType && result.orgId
HasJob(result) ==
  result.jobId # NoJob /\ result.queueType # Null /\ result.orgId # Null

\* workflowId: `job-execution-${result.jobId}`
WorkflowId(jobId) == <<"job-execution", jobId>>

\* What a firing makes of the result of step 1, the Preprocess activity.  An
\* activity that throws on each of its attempts fails the workflow; a result
\* with a job leads to step 2, any other result is returned as processed: false.
MonitorResult(a) ==
  /\ wf[a].pc \in {"idle", "done", "failed"}
  /\ LET result == [jobId |-> reply'.jobId, queueType |-> reply'.queueType,
                    orgId |-> reply'.orgId]
     IN wf' = [wf EXCEPT ![a] =
                 IF reply'.code = "error" THEN [WfIdle EXCEPT !.pc = "failed"]
                 ELSE IF HasJob(result)
                 THEN [WfIdle EXCEPT !.pc = "process", !.result = result]
                 ELSE [WfIdle EXCEPT !.pc = "done", !.result = result]]
  /\ UNCHANGED <<children, cr>>

\* Step 1 of a firing, counted among the invocations served.
MonitorPreprocess(a) ==
  /\ PreprocessActivity(a)
  /\ MonitorResult(a)

\* executeChild: the engine starts the child under its workflow id unless it is
\* unavailable or a workflow with that id is running; a start that fails is
\* caught and the firing returns processed: false with the job.
MonitorStartChild(a, available) ==
  /\ wf[a].pc = "process"
  /\ LET id == WorkflowId(wf[a].result.jobId)
     IN IF available /\ id \notin children
        THEN /\ children' = children \cup {id}
             /\ wf' = [wf EXCEPT ![a].pc = "child", ![a].workflowId = id]
        ELSE /\ wf' = [wf EXCEPT ![a].pc = "done", ![a].processed = FALSE,
                                 ![a].jobId = wf[a].result.jobId,
                                 ![a].queueType = wf[a].result.queueType]
             /\ UNCHANGED <<children, cr>>
  /\ UNCHANGED <<jobs, agents, queueStatus, reply, inv, rp, steps, schedules, reg, cr>>

\* The child ends: the awaited executeChild returns (completed) or throws
\* (failed, timed out, cancelled), and the firing returns.
ChildReturns(a, completed) ==
  /\ wf[a].pc = "child"
  /\ children' = children \ {wf[a].workflowId}
  /\ wf' = [wf EXCEPT ![a].pc = "done", ![a].processed = completed,
                      ![a].jobId = wf[a].result.jobId,
                      ![a].queueType = wf[a].result.queueType]
  /\ UNCHANGED <<agents, queueStatus, reply, inv, rp, steps, schedules, reg, cr>>

\* The firing as the dispatch workflow sees it: the table is not its concern.
MonitorChildEnds(a, completed) ==
  /\ ChildReturns(a, completed)
  /\ UNCHANGED jobs

(* ------------------- POST /jobs/:id/reprioritize ----------------------- *)

\* The rows of S in ascending order_in_queue; rows that share a position come
\* in either order (the query has no second sort key).
RECURSIVE SortedSeqs(_)
SortedSeqs(S) ==
  IF S = {} THEN {<<>>}
  ELSE UNION {{<<m>> \o t : t \in SortedSeqs(S \ {m})} :
              m \in {r \in S : \A x \in S : r.orderInQueue <= x.orderInQueue}}

\* allQueueJobs: queued rows of the org with the job's queue_type (IS NULL for none)
AllQueueJobs(J, orgId, job) ==
  SortedSeqs({r \in J : /\ r.orgId = orgId
                        /\ r.status = "queued"
                        /\ r.queueType = job.queueType})

\* otherJobs = allQueueJobs.filter(...)
OtherJobs(all, job) ==
  SelectSeq(all, LAMBDA j : j.id # job.id \/ j.version # job.version)

\* reorderedJobs.splice(newPosition, 0, job): positions past the end append
Splice(others, newPosition, job) ==
  LET at == IF newPosition > Len(others) THEN Len(others) ELSE newPosition
  IN SubSeq(others, 1, at) \o <<job>> \o SubSeq(others, at + 1, Len(others))

\* The update statements of updatePromises: one per row that is the moved job
\* or whose position as read differs from its index.
UpdatePlan(reordered, job) ==
  {[id |-> reordered[i].id, version |-> reordered[i].version, index |-> i - 1] :
     i \in {k \in 1..Len(reordered) :
              \/ (reordered[k].id = job.id /\ reordered[k].version = job.version)
              \/ reordered[k].orderInQueue # k - 1}}

\* update gpr_jobs set order_in_queue = :index, updated_at = now where id, version, org
ApplyUpdate(J, orgId, w) ==
  {IF r.id = w.id /\ r.version = w.version /\ r.orgId = orgId
   THEN [r EXCEPT !.orderInQueue = w.index, !.old = FALSE]
   ELSE r : r \in J}

RECURSIVE ApplyUpdates(_, _, _)
ApplyUpdates(J, orgId, plan) ==
  IF plan = {} THEN J
  ELSE LET w == CHOOSE x \in plan : TRUE
       IN ApplyUpdates(ApplyUpdate(J, orgId, w), orgId, plan \ {w})

Reprioritize(id, orgId, newPosition) ==
  /\ IF newPosition < 0
     THEN /\ reply' = Reply("POST /jobs/:id/reprioritize", Null, "400", id, Null)
          /\ UNCHANGED jobs
     ELSE IF Latest(jobs, id, orgId) = {}
     THEN /\ reply' = Reply("POST /jobs/:id/reprioritize", Null, "404", id, Null)
          /\ UNCHANGED jobs
     ELSE LET job == CHOOSE r \in Latest(jobs, id, orgId) : TRUE
          IN IF job.status # "queued"
             THEN /\ reply' = Reply("POST /jobs/:id/reprioritize", Null, "400", id, Null)
                  /\ UNCHANGED jobs
             ELSE IF newPosition = job.orderInQueue
             THEN /\ reply' = Reply("POST /jobs/:id/reprioritize", Null, "200-same", id, Null)
                  /\ UNCHANGED jobs
             ELSE \E all \in AllQueueJobs(jobs, orgId, job) :
                    /\ jobs' = ApplyUpdates(jobs, orgId,
                                 UpdatePlan(Splice(OtherJobs(all, job), newPosition, job), job))
                    /\ reply' = Reply("POST /jobs/:id/reprioritize", Null, "200", id, Null)
  /\ Served
  /\ UNCHANGED <<agents, queueStatus, inv, rp, schedules, reg, wf, children, cr>>

(* ---------------------------- PUT /jobs/:id ---------------------------- *)


Rework == "reviewed_and_asked_rework"

\* Request bodies: status, queue_type, user_acceptance_status and user_input are
\* a value or Undefined; user_comments (its length) and order_in_queue are the
\* empty set when left out and a singleton otherwise.
PutRequest(status, queue_type, uas, user_input, user_comments, order_in_queue) ==
  [status |-> status, queue_type |-> queue_type, user_acceptance_status |-> uas,
   user_input |-> user_input, user_comments |-> user_comments,
   order_in_queue |-> order_in_queue]

\* user_comments && user_comments.length > (currentJob.userComments?.length || 0)
CommentsGrew(req, currentJob) ==
  \E n \in req.user_comments : n > currentJob.userComments

isRetry(req, currentJob) ==
  /\ req.status = "queued"
  /\ req.queue_type = "rework"
  /\ CommentsGrew(req, currentJob)

\* The request bodies of PutRequests never carry repo, so the repo disjunct
\* (repo !== undefined && repo !== currentJob.repoId) is false and left out.
needsNewVersion(req, currentJob) ==
  \/ (req.user_input # Undefined /\ req.user_input # currentJob.userInput)
  \/ (req.user_acceptance_status = Rework /\ currentJob.userAcceptanceStatus # Rework)
  \/ isRetry(req, currentJob)

\* The handler without its check of the queued -> in-progress transition.
PutBlockedNever(req, currentJob) == FALSE

\* status === 'in-progress' && currentJob.status === 'queued'
PutBlocked(req, currentJob) ==
  req.status = "in-progress" /\ currentJob.status = "queued"

\* The reprioritize statements the handler runs before it writes the job, and the
\* values of reworkOrderInQueue / targetQueueType it ends up with, as
\* [J |-> table, order |-> reworkOrderInQueue, target |-> targetQueueType].
PutQueueMoves(J, orgId, req, currentJob) ==
  LET toReview == /\ req.status = "in-review"
                  /\ currentJob.status # "in-review"
                  /\ currentJob.status = "queued"
                  /\ currentJob.queueType # Null
      J1 == IF toReview
            THEN reprioritizeQueueAfterRemoval(J, orgId, currentJob.queueType,
                                               currentJob.orderInQueue)
            ELSE J
      toRework == /\ req.user_acceptance_status = Rework
                  /\ currentJob.userAcceptanceStatus # Rework
      J2 == IF toRework /\ currentJob.status = "queued" /\ currentJob.queueType = "backlog"
            THEN reprioritizeQueueAfterRemoval(J1, orgId, "backlog", currentJob.orderInQueue)
            ELSE J1
      s2 == IF toRework
            THEN [order |-> getNextQueuePosition(J2, orgId, "rework"), target |-> "rework"]
            ELSE [order |-> currentJob.orderInQueue, target |-> Null]
      toBacklog == /\ req.user_acceptance_status = "not_reviewed"
                   /\ currentJob.userAcceptanceStatus = Rework
                   /\ currentJob.status = "queued"
      J3 == IF toBacklog /\ currentJob.queueType = "rework"
            THEN reprioritizeQueueAfterRemoval(J2, orgId, "rework", currentJob.orderInQueue)
            ELSE J2
      s3 == IF toBacklog
            THEN [order |-> getNextQueuePosition(J3, orgId, "backlog"), target |-> "backlog"]
            ELSE s2
      toQueued == req.status = "queued" /\ currentJob.status # "queued"
      targetQueue == IF currentJob.userAcceptanceStatus = Rework THEN "rework" ELSE "backlog"
      s4 == IF toQueued
            THEN [order |-> getNextQueuePosition(J3, orgId, targetQueue), target |-> targetQueue]
            ELSE s3
  IN [J |-> J3, order |-> s4.order, target |-> s4.target]

\* isRetry ? null : currentJob.codeGenerationLogs ?? null (and the same for
\* codeVerificationLogs)
RetryLogs(req, currentJob, logs) ==
  IF isRetry(req, currentJob) THEN Null ELSE logs

\* user_acceptance_status ?? currentJob.userAcceptanceStatus, mapped to its queue
QueueOfAcceptance(req, currentJob) ==
  LET final == IF req.user_acceptance_status # Undefined
               THEN req.user_acceptance_status
               ELSE currentJob.userAcceptanceStatus
  IN IF final = Rework THEN "rework" ELSE "backlog"

\* The row inserted when needsNewVersion holds.
PutNewVersion(m, orgId, req, currentJob) ==
  LET newStatus == IF req.status # Undefined THEN req.status ELSE currentJob.status
      q == IF newStatus = "queued"
           THEN IF req.queue_type # Undefined
                THEN [queueType |-> req.queue_type,
                      order |-> getNextQueuePosition(m.J, orgId, req.queue_type)]
                ELSE [queueType |-> QueueOfAcceptance(req, currentJob),
                      order |-> IF m.target # Null THEN m.order
                                ELSE getNextQueuePosition(m.J, orgId,
                                       QueueOfAcceptance(req, currentJob))]
           ELSE IF req.status \in {"in-progress", "in-review"}
           THEN [queueType |-> Null, order |-> -1]
           ELSE [queueType |-> currentJob.queueType, order |-> currentJob.orderInQueue]
      order == IF req.order_in_queue # {}
               THEN CHOOSE n \in req.order_in_queue : TRUE
               ELSE q.order
      row == NewJob(currentJob.id, currentJob.version + 1, currentJob.orgId, newStatus,
                    q.queueType, order,
                    IF req.user_acceptance_status # Undefined
                    THEN req.user_acceptance_status ELSE currentJob.userAcceptanceStatus,
                    IF req.user_input # Undefined THEN req.user_input ELSE currentJob.userInput,
                    IF req.user_comments # {}
                    THEN CHOOSE n \in req.user_comments : TRUE ELSE currentJob.userComments)
  IN [row EXCEPT !.codeGenerationLogs = RetryLogs(req, currentJob, currentJob.codeGenerationLogs),
                 !.codeVerificationLogs = RetryLogs(req, currentJob, currentJob.codeVerificationLogs)]

\* The row as rewritten by the in-place update (updateData applied to currentJob).
PutInPlace(m, orgId, req, currentJob) ==
  LET r1 == IF req.status = Undefined THEN currentJob
            ELSE IF req.status \in {"in-progress", "in-review"}
            THEN [currentJob EXCEPT !.status = req.status,
                                    !.queueType = Null, !.orderInQueue = -1]
            ELSE IF req.status = "queued"
            THEN IF req.queue_type # Undefined
                 THEN [currentJob EXCEPT !.status = req.status,
                         !.queueType = req.queue_type,
                         !.orderInQueue = getNextQueuePosition(m.J, orgId, req.queue_type)]
                 ELSE IF m.target # Null
                 THEN [currentJob EXCEPT !.status = req.status,
                         !.queueType = m.target, !.orderInQueue = m.order]
                 ELSE [currentJob EXCEPT !.status = req.status,
                         !.queueType = QueueOfAcceptance(req, currentJob),
                         !.orderInQueue = getNextQueuePosition(m.J, orgId,
                                            QueueOfAcceptance(req, currentJob))]
            ELSE [currentJob EXCEPT !.status = req.status]
      r2 == IF req.order_in_queue # {}
            THEN [r1 EXCEPT !.orderInQueue = CHOOSE n \in req.order_in_queue : TRUE]
            ELSE r1
      r3 == IF req.user_comments # {}
            THEN [r2 EXCEPT !.userComments = CHOOSE n \in req.user_comments : TRUE]
            ELSE r2
      r4 == IF req.user_acceptance_status = Undefined THEN r3
            ELSE IF m.target # Null /\ currentJob.status = "queued"
            THEN [r3 EXCEPT !.userAcceptanceStatus = req.user_acceptance_status,
                            !.queueType = m.target, !.orderInQueue = m.order]
            ELSE [r3 EXCEPT !.userAcceptanceStatus = req.user_acceptance_status]
  IN [r4 EXCEPT !.old = FALSE]

\* The table after a PUT that was not rejected.
PutTable(J, orgId, req, currentJob) ==
  LET m == PutQueueMoves(J, orgId, req, currentJob)
  IN IF needsNewVersion(req, currentJob)
     THEN m.J \cup {PutNewVersion(m, orgId, req, currentJob)}
     ELSE {IF /\ r.id = currentJob.id
              /\ r.version = currentJob.version
              /\ r.orgId = orgId
           THEN PutInPlace(m, orgId, req, currentJob)
           ELSE r : r \in m.J}

PutJob(id, orgId, req) ==
  /\ IF Latest(jobs, id, orgId) = {}
     THEN /\ reply' = Reply("PUT /jobs/:id", Null, "404", id, Null)
          /\ UNCHANGED jobs
     ELSE LET currentJob == CHOOSE r \in Latest(jobs, id, orgId) : TRUE
          IN IF PutBlocked(req, currentJob)
             THEN /\ reply' = Reply("PUT /jobs/:id", Null, "400", id, Null)
                  /\ UNCHANGED jobs
             ELSE /\ needsNewVersion(req, currentJob) => currentJob.version < MaxVersion
                  /\ jobs' = PutTable(jobs, orgId, req, currentJob)
                  /\ reply' = Reply("PUT /jobs/:id", Null, "200", id, Null)
  /\ Served
  /\ UNCHANGED <<agents, queueStatus, inv, rp, schedules, reg, wf, children, cr>>

\* The request bodies the serial specification sends.
PutRequests ==
  {PutRequest(st, Undefined, Undefined, Undefined, {}, {}) :
     st \in {"queued", "in-progress", "in-review", "completed"}}
  \cup {PutRequest(Undefined, Undefined, u, Undefined, {}, {}) :
          u \in {Rework, "not_reviewed", "reviewed_and_accepted"}}
  \cup {PutRequest(Undefined, Undefined, Undefined, "p2", {}, {})}
  \cup {PutRequest("queued", q, Undefined, Undefined, {}, {}) : q \in QueueTypes}
  \cup {PutRequest("queued", "rework", Undefined, Undefined, {n}, {}) : n \in 1..MaxComments}
  \cup {PutRequest(Undefined, Undefined, Undefined, Undefined, {}, {n}) : n \in 0..MaxPosition}

\* The Log Sink: a log frame of the running job is appended to one of the two
\* log columns of the row keyed by (job id, job version, org).
AppendLog(id, orgId, column) ==
  /\ \E currentJob \in Latest(jobs, id, orgId) :
       /\ currentJob.status = "in-progress"
       /\ jobs' = (jobs \ {currentJob}) \cup
                    {IF column = "code_generation_logs"
                     THEN [currentJob EXCEPT !.codeGenerationLogs = "logged", !.old = FALSE]
                     ELSE [currentJob EXCEPT !.codeVerificationLogs = "logged", !.old = FALSE]}
  /\ jobs' # jobs
  /\ UNCHANGED <<agents, queueStatus, reply, inv, rp, steps, schedules, reg, wf, children, cr>>

LogColumns == {"code_generation_logs", "code_verification_logs"}

\* The request bodies of a job that runs, fails or is sent to review, and is retried.
RetryRequests ==
  {PutRequest(st, Undefined, Undefined, Undefined, {}, {}) : st \in {"failed", "in-review"}}
  \cup {PutRequest("queued", "rework", Undefined, Undefined, {}, {})}
  \cup {PutRequest("queued", "rework", Undefined, Undefined, {n}, {}) : n \in 1..MaxComments}

(* ------------------------- agent liveness ------------------------------ *)

\* pingAgentViaStream: responded tells whether the agent's health check answered
\* with success (a failed response, a timeout and an RPC error all take the
\* failure writes).
PingTable(A, agentId, responded) ==
  IF responded
  THEN [A EXCEPT ![agentId].status = "active", ![agentId].consecutiveFailures = 0]
  ELSE [A EXCEPT ![agentId].status = "offline",
                 ![agentId].consecutiveFailures = A[agentId].consecutiveFailures + 1]

PingAgent(agentId, responded) ==
  /\ ~responded => agents[agentId].consecutiveFailures < MaxFailures
  /\ agents' = PingTable(agents, agentId, responded)
  /\ reply' = Reply("pingAgentViaStream", agentId,
                    IF responded THEN "success" ELSE "failure", NoJob, Null)
  /\ Served
  /\ UNCHANGED <<jobs, queueStatus, inv, rp, schedules, reg, wf, children, cr>>

\* queueWorkflowService.startAgentSchedules / pauseAgentSchedules /
\* resumeAgentSchedules: ok tells whether the engine took the request (the
\* callers catch and log a failure).  Pausing a schedule that does not exist
\* pauses nothing.
HookTable(S, agentId, hook, ok) ==
  IF ~ok \/ hook = "none" THEN S
  ELSE IF hook = "pause"
  THEN [S EXCEPT ![agentId] = IF S[agentId] = "none" THEN "none" ELSE "paused"]
  ELSE [S EXCEPT ![agentId] = "running"]

\* POST /agents/:id/reconnect: one ping, then the active write and the resume
\* request when it succeeded; a failed ping is only reported.
ReconnectAgent(agentId, responded, ok) ==
  /\ ~responded => agents[agentId].consecutiveFailures < MaxFailures
  /\ agents' = LET pinged == PingTable(agents, agentId, responded)
               IN IF responded
                  THEN [pinged EXCEPT ![agentId].status = "active",
                                      ![agentId].consecutiveFailures = 0]
                  ELSE pinged
  /\ schedules' = HookTable(schedules, agentId, IF responded THEN "resume" ELSE "none", ok)
  /\ reply' = AgentReply("POST /agents/:id/reconnect", agentId,
                         IF responded THEN "success" ELSE "failure",
                         IF responded THEN "resume" ELSE "none")
  /\ Served
  /\ UNCHANGED <<jobs, queueStatus, inv, rp, reg, wf, children, cr>>

AgentStatuses == {"active", "idle", "offline"}

\* The hosts registrations and POST /agents come from: one that has a row, one new.
RegHosts == {"h1", "h3"}

\* The schedule request PUT /agents/:id makes for a status change.
UpdateHook(status, previousStatus) ==
  IF status = Undefined \/ status = previousStatus THEN "none"
  ELSE IF status = "active" THEN "start"
  ELSE IF previousStatus = "active" THEN "pause"
  ELSE "none"

\* PUT /agents/:id: status and host are written when the body carries them.
UpdateAgent(agentId, status, host, ok) ==
  /\ agents' = [agents EXCEPT
                  ![agentId].status = IF status = Undefined THEN @ ELSE status,
                  ![agentId].host = IF host = Undefined THEN @ ELSE host]
  /\ schedules' = HookTable(schedules, agentId,
                            UpdateHook(status, agents[agentId].status), ok)
  /\ reply' = AgentReply("PUT /agents/:id", agentId, "200",
                         UpdateHook(status, agents[agentId].status))
  /\ Served
  /\ UNCHANGED <<jobs, queueStatus, inv, rp, reg, wf, children, cr>>

(* ------------------------------ POST /agents --------------------------- *)

\* `agent-${uuidv4()}`: an id no row has yet.
FreshAgentIds(A) ==
  {NewAgentIds[i] : i \in {j \in DOMAIN NewAgentIds :
                             /\ NewAgentIds[j] \notin DOMAIN A
                             /\ \A k \in 1..(j - 1) : NewAgentIds[k] \in DOMAIN A}}

\* POST /agents with name, host and port in the body: the row is inserted with
\* status || 'offline' whatever rows the org already has for that host; an
\* active agent gets its schedules started.
CreateAgent(orgId, host, status, ok) ==
  /\ \E agentId \in FreshAgentIds(agents) :
       LET st == IF status = Undefined THEN "offline" ELSE status
           hook == IF st = "active" THEN "start" ELSE "none"
       IN /\ agents' = agents @@ (agentId :> [orgId |-> orgId, host |-> host, status |-> st,
                                              consecutiveFailures |-> 0])
          /\ schedules' = HookTable(schedules, agentId, hook, ok)
          /\ reply' = AgentReply("POST /agents", agentId, "201", hook)
  /\ Served
  /\ UNCHANGED <<jobs, queueStatus, inv, rp, reg, wf, children, cr>>

(* ---------------- registerAgent, one statement per step ---------------- *)

\* The statements of concurrent registrations interleave: registerAgent opens
\* no transaction and agents_org_host_idx is a plain index, not a unique one.

ApiKeys == {"k1", "k2"}

\* sha256 of the key, hex: distinct keys have distinct digests.
hashApiKey(apiKey) ==
  IF apiKey = "k1" THEN "6b86b273" ELSE "d4735e3a"

\* The api_keys table: the org's key k1 is stored by its hash, k2 was never issued.
apiKeys == {[keyHash |-> hashApiKey("k1"), orgId |-> "o1"]}

\* The key lookup without its where clause: any stored key is taken.
StoredKeyAny(keyHash) == apiKeys

\* select from api_keys where key_hash = :keyHash limit 1
StoredKey(keyHash) == {k \in apiKeys : k.keyHash = keyHash}

\* A registration whose schedule request threw is reported as failed.
RegisterSuccessUnlessThrew(threw) == ~threw

\* The catch around startAgentSchedules only logs: the result that follows has
\* success: true.
RegisterSuccess(threw) == TRUE

\* The call arrives (in the lowest free slot), hashes the key and looks it up; a
\* miss returns at once.
RegStart(r, apiKey, hostname) ==
  /\ reg[r].pc = "idle"
  /\ \A q \in RegIds : q < r => reg[q].pc # "idle"
  /\ Served
  /\ IF StoredKey(hashApiKey(apiKey)) = {}
     THEN /\ reg' = [reg EXCEPT ![r] = [@ EXCEPT !.pc = "done", !.apiKey = apiKey,
                                                 !.hostname = hostname, !.agentId = "",
                                                 !.orgId = "", !.success = FALSE]]
          /\ reply' = AgentReply("registerAgent", Null, "Invalid API key", "none")
     ELSE /\ \E storedKey \in StoredKey(hashApiKey(apiKey)) :
               reg' = [reg EXCEPT ![r] = [@ EXCEPT !.pc = "select", !.apiKey = apiKey,
                                                   !.hostname = hostname,
                                                   !.orgId = storedKey.orgId]]
          /\ UNCHANGED reply
  /\ UNCHANGED <<jobs, agents, queueStatus, inv, rp, schedules, wf, children, cr>>

\* select from agents where org_id = :orgId and host = :hostname limit 1
RegSelect(r) ==
  /\ reg[r].pc = "select"
  /\ LET found == {a \in DOMAIN agents : /\ agents[a].orgId = reg[r].orgId
                                         /\ agents[a].host = reg[r].hostname}
     IN IF found = {}
        THEN reg' = [reg EXCEPT ![r] = [@ EXCEPT !.pc = "write", !.existingAgents = {}]]
        ELSE \E a \in found :
               reg' = [reg EXCEPT ![r] = [@ EXCEPT !.pc = "write",
                         !.existingAgents = {[id |-> a, status |-> agents[a].status]}]]
  /\ UNCHANGED <<jobs, agents, queueStatus, reply, inv, rp, steps, schedules, wf, children, cr>>

\* The update of the row found, or the insert of a new one.
RegWrite(r) ==
  /\ reg[r].pc = "write"
  /\ IF reg[r].existingAgents # {}
     THEN \E agent \in reg[r].existingAgents :
            /\ agents' = [agents EXCEPT ![agent.id].status = "active",
                                         ![agent.id].consecutiveFailures = 0]
            /\ reg' = [reg EXCEPT ![r] = [@ EXCEPT !.pc = "hook", !.agentId = agent.id,
                          !.hook = IF agent.status # "active" THEN "start" ELSE "none"]]
     ELSE \E agentId \in FreshAgentIds(agents) :
            /\ agents' = agents @@ (agentId :> [orgId |-> reg[r].orgId,
                                                host |-> reg[r].hostname,
                                                status |-> "active",
                                                consecutiveFailures |-> 0])
            /\ reg' = [reg EXCEPT ![r] = [@ EXCEPT !.pc = "hook", !.agentId = agentId,
                                                   !.hook = "start"]]
  /\ UNCHANGED <<jobs, queueStatus, reply, inv, rp, steps, schedules, wf, children, cr>>

\* startAgentSchedules inside its try / catch (ok = FALSE: it threw), then the
\* result is returned.
RegHook(r, ok) ==
  /\ reg[r].pc = "hook"
  /\ schedules' = HookTable(schedules, reg[r].agentId, reg[r].hook, ok)
  /\ LET threw == reg[r].hook # "none" /\ ~ok
     IN /\ reg' = [reg EXCEPT ![r] = [@ EXCEPT !.pc = "done", !.threw = threw,
                                               !.success = RegisterSuccess(threw)]]
        /\ reply' = AgentReply("registerAgent", reg[r].agentId,
                               IF RegisterSuccess(threw) THEN "success" ELSE "failure",
                               reg[r].hook)
  /\ UNCHANGED <<jobs, agents, queueStatus, inv, rp, steps, wf, children, cr>>

(* ------------- Preprocess, one database statement per step ------------- *)

\* The statements of concurrent invocations interleave: nothing in
\* preprocessActivity opens a transaction.

\* agents.findFirst and the status test
PStart(p, a) ==
  /\ inv[p].pc = "idle"
  /\ inv' = [inv EXCEPT ![p].agentId = a,
                        ![p].pc = IF AgentUnavailable(agents, a) THEN "done" ELSE "orphans"]
  /\ UNCHANGED <<jobs, agents, queueStatus, reply, rp, steps, schedules, reg, wf, children, cr>>

\* select of orphanJobs
PSelectOrphans(p) ==
  /\ inv[p].pc = "orphans"
  /\ LET found == {r.id : r \in SelectOrphans(jobs, agents[inv[p].agentId].orgId,
                                             inv[p].agentId)}
     IN inv' = [inv EXCEPT ![p].orphanJobs = found,
                           ![p].pc = IF found = {} THEN "inprogress" ELSE "reset"]
  /\ UNCHANGED <<jobs, agents, queueStatus, reply, rp, steps, schedules, reg, wf, children, cr>>

\* one update of the for loop over orphanJobs
PResetOrphan(p) ==
  /\ inv[p].pc = "reset"
  /\ \E id \in inv[p].orphanJobs :
       /\ jobs' = ResetOrphan(jobs, id)
       /\ inv' = [inv EXCEPT ![p].orphanJobs = @ \ {id},
                             ![p].pc = IF inv[p].orphanJobs = {id}
                                       THEN "inprogress" ELSE "reset"]
  /\ UNCHANGED <<agents, queueStatus, reply, rp, steps, schedules, reg, wf, children, cr>>

\* findFirst of inProgressJob, with the agent update of the heartbeat branch
PFindInProgress(p) ==
  /\ inv[p].pc = "inprogress"
  /\ IF FindInProgress(jobs, inv[p].agentId) # {}
     THEN /\ agents' = TouchAgent(agents, inv[p].agentId)
          /\ inv' = [inv EXCEPT ![p].pc = "done"]
     ELSE /\ inv' = [inv EXCEPT ![p].pc = "paused"]
          /\ UNCHANGED agents
  /\ UNCHANGED <<jobs, queueStatus, reply, rp, steps, schedules, reg, wf, children, cr>>

\* Where the queue loop goes after queue index i yields nothing.
LoopOn(rec, i) ==
  IF i >= Len(queueTypes)
  THEN [rec EXCEPT !.pc = "done"]
  ELSE [rec EXCEPT !.pc = "paused", !.qi = i + 1]

\* queueStatus.findFirst for the current queue type; pc "failed" when it throws
PCheckPaused(p) ==
  /\ inv[p].pc = "paused"
  /\ \/ inv' = [inv EXCEPT ![p] =
                  IF IsPaused(queueStatus, agents[inv[p].agentId].orgId, queueTypes[inv[p].qi])
                  THEN LoopOn(inv[p], inv[p].qi)
                  ELSE [inv[p] EXCEPT !.pc = "select"]]
     \/ inv' = [inv EXCEPT ![p].pc = "failed"]
  /\ UNCHANGED <<jobs, agents, queueStatus, reply, rp, steps, schedules, reg, wf, children, cr>>

\* jobs.findFirst of nextJob
PSelectNext(p) ==
  /\ inv[p].pc = "select"
  /\ LET found == NextJobs(jobs, agents[inv[p].agentId].orgId, queueTypes[inv[p].qi])
     IN IF found = {}
        THEN inv' = [inv EXCEPT ![p] = LoopOn(inv[p], inv[p].qi)]
        ELSE \E n \in found :
               inv' = [inv EXCEPT ![p].nextJob = n.id, ![p].pc = "claim"]
  /\ UNCHANGED <<jobs, agents, queueStatus, reply, rp, steps, schedules, reg, wf, children, cr>>

\* the claiming update, and the return of { jobId, queueType, orgId }
PClaim(p) ==
  /\ inv[p].pc = "claim"
  /\ jobs' = ClaimJob(jobs, inv[p].nextJob, inv[p].agentId)
  /\ inv' = [inv EXCEPT ![p].jobId = inv[p].nextJob,
                        ![p].queueType = queueTypes[inv[p].qi],
                        ![p].pc = "done"]
  /\ UNCHANGED <<agents, queueStatus, reply, rp, steps, schedules, reg, wf, children, cr>>

(* -------- POST /jobs/:id/reprioritize, one statement per step ---------- *)

\* select of the job, the status and same-position tests
RpStart(id, orgId, newPosition) ==
  /\ rp.pc = "idle"
  /\ Latest(jobs, id, orgId) # {}
  /\ LET job == CHOOSE r \in Latest(jobs, id, orgId) : TRUE
     IN rp' = [rp EXCEPT !.id = id, !.newPosition = newPosition, !.job = {job},
                         !.pc = IF job.status # "queued" \/ newPosition = job.orderInQueue
                                THEN "done" ELSE "read"]
  /\ UNCHANGED <<jobs, agents, queueStatus, reply, inv, steps, schedules, reg, wf, children, cr>>

\* select of allQueueJobs; the update statements are then fixed
RpReadQueue(orgId) ==
  /\ rp.pc = "read"
  /\ LET job == CHOOSE r \in rp.job : TRUE
     IN \E all \in AllQueueJobs(jobs, orgId, job) :
          rp' = [rp EXCEPT !.plan = UpdatePlan(Splice(OtherJobs(all, job),
                                                      rp.newPosition, job), job),
                           !.pc = "write"]
  /\ UNCHANGED <<jobs, agents, queueStatus, reply, inv, steps, schedules, reg, wf, children, cr>>

\* one of the updates that Promise.all runs, in whatever order they reach the store
RpWrite(orgId) ==
  /\ rp.pc = "write"
  /\ \E w \in rp.plan :
       /\ jobs' = ApplyUpdate(jobs, orgId, w)
       /\ rp' = [rp EXCEPT !.plan = @ \ {w},
                           !.pc = IF rp.plan = {w} THEN "done" ELSE "write"]
  /\ UNCHANGED <<agents, queueStatus, reply, inv, steps, schedules, reg, wf, children, cr>>

Next ==
  \/ \E o \in Orgs : CreateJob(o)
  \/ \E id \in JobIds, o \in Orgs, req \in PutRequests : PutJob(id, o, req)
  \/ \E a \in AgentIds : Preprocess(a)
  \/ Tick
  \/ \E o \in Orgs, q \in QueueTypes, b \in BOOLEAN : SetQueuePaused(o, q, b)
  \/ \E id \in JobIds, o \in Orgs : ArchiveJob(id, o)
  \/ \E id \in JobIds, o \in Orgs, e, b \in BOOLEAN : ExecuteJob(id, o, e, b)
  \/ \E id \in JobIds, o \in Orgs, p \in 0..MaxPosition : Reprioritize(id, o, p)
  \/ \E a \in AgentIds, b \in BOOLEAN : PingAgent(a, b)

Spec == Init /\ [][Next]_vars

(* ------------------ statement-level interleaving ----------------------- *)

\* Three jobs as three POST /jobs leave them: backlog positions 0, 1, 2.
InitPar ==
  /\ jobs = {NewJob(id, 1, "o1", "queued", "backlog", id - 1, "not_reviewed", "p1", 0) :
               id \in 1..3}
  /\ agents = InitAgents
  /\ queueStatus = [k \in Orgs \X QueueTypes |-> "none"]
  /\ reply = NoReply
  /\ inv = InitInv
  /\ rp = RpIdle
  /\ steps = 0
  /\ schedules = InitSchedules
  /\ reg = InitReg
  /\ wf = InitWf
  /\ children = {}
  /\ cr = InitCr

NextPar ==
  \/ \E p \in InvIds, a \in AgentIds : PStart(p, a)
  \/ \E p \in InvIds : PSelectOrphans(p)
  \/ \E p \in InvIds : PResetOrphan(p)
  \/ \E p \in InvIds : PFindInProgress(p)
  \/ \E p \in InvIds : PCheckPaused(p)
  \/ \E p \in InvIds : PSelectNext(p)
  \/ \E p \in InvIds : PClaim(p)
  \/ \E id \in 1..3, pos \in 0..MaxPosition : RpStart(id, "o1", pos)
  \/ RpReadQueue("o1")
  \/ RpWrite("o1")

SpecPar == InitPar /\ [][NextPar]_vars

(* --------------------------- agent health ------------------------------ *)

\* Registrations, statement by statement, with the agent routes.
NextReg ==
  \/ \E r \in RegIds, k \in ApiKeys, h \in RegHosts : RegStart(r, k, h)
  \/ \E r \in RegIds : RegSelect(r)
  \/ \E r \in RegIds : RegWrite(r)
  \/ \E r \in RegIds, ok \in BOOLEAN : RegHook(r, ok)
  \/ \E o \in Orgs, h \in RegHosts, st \in {Undefined, "active"} :
       CreateAgent(o, h, st, TRUE)
  \/ \E a \in DOMAIN agents, body \in {<<"offline", Undefined>>, <<Undefined, "h1">>} :
       UpdateAgent(a, body[1], body[2], TRUE)

SpecReg == Init /\ [][NextReg]_vars

\* Job creation and the dispatch alone: no request rewrites a job.
NextDispatch ==
  \/ \E o \in Orgs : CreateJob(o)
  \/ \E a \in AgentIds : Preprocess(a)
  \/ Tick

SpecDispatch == Init /\ [][NextDispatch]_vars

\* The dispatch next to the requests that change an agent's status; the
\* schedule of an agent that was never registered may fire too.
NextIdle ==
  \/ \E o \in Orgs : CreateJob(o)
  \/ \E a \in AllAgentIds : Preprocess(a)
  \/ Tick
  \/ \E a \in DOMAIN agents, st \in AgentStatuses : UpdateAgent(a, st, Undefined, TRUE)

SpecIdle == Init /\ [][NextIdle]_vars

\* The schedules of the agents fire while jobs are created and time passes.
NextMonitor ==
  \/ \E o \in Orgs : CreateJob(o)
  \/ Tick
  \/ \E a \in AgentIds : MonitorPreprocess(a)
  \/ \E a \in AgentIds, available \in BOOLEAN : MonitorStartChild(a, available)
  \/ \E a \in AgentIds, completed \in BOOLEAN : MonitorChildEnds(a, completed)

SpecMonitor == Init /\ [][NextMonitor]_vars

\* A job's life from creation to a retry: it is created, claimed, logged, set to
\* failed or in-review, and put back into the queue.
NextRetry ==
  \/ \E o \in Orgs : CreateJob(o)
  \/ \E a \in AgentIds : Preprocess(a)
  \/ \E id \in JobIds, o \in Orgs, c \in LogColumns : AppendLog(id, o, c)
  \/ \E id \in JobIds, o \in Orgs, req \in RetryRequests : PutJob(id, o, req)

SpecRetry == Init /\ [][NextRetry]_vars

NextHealth ==
  \/ \E a \in AgentIds, b \in BOOLEAN : PingAgent(a, b)
  \/ \E a \in AgentIds, b \in BOOLEAN, ok \in BOOLEAN : ReconnectAgent(a, b, ok)
  \/ \E a \in AgentIds, st \in AgentStatuses, ok \in BOOLEAN :
       UpdateAgent(a, st, Undefined, ok)

SpecHealth == Init /\ [][NextHealth]_vars

(* ======================= properties of the queues ====================== *)

\* The queued jobs of a queue as the specification counts them: latest-version
\* rows with status = queued and the queue's queue_type.
QueuedJobs(J, orgId, queueType) ==
  {r \in LatestRows(J) : /\ r.orgId = orgId
                         /\ r.status = "queued"
                         /\ r.queueType = queueType}

\* The latest-version row of a job that exists.
Row(J, id) == CHOOSE r \in LatestRows(J) : r.id = id

\* C1: for every org and queue type, the order_in_queue values of the queued
\* jobs (latest version rows) are exactly 0 .. n-1, with no gap and no duplicate.
C1_PositionsContiguous ==
  \A o \in Orgs, q \in QueueTypes :
    LET Q == QueuedJobs(jobs, o, q)
    IN /\ {r.orderInQueue : r \in Q} = 0..(Cardinality(Q) - 1)
       /\ \A r, s \in Q : r.orderInQueue = s.orderInQueue => r = s

C5_ReworkBeforeBacklog ==
  (reply.op = "preprocess" /\ reply.jobId # NoJob /\ reply.queueType = "backlog")
  => \/ queueStatus[<<agents[reply.agent].orgId, "rework">>] = "paused"
     \/ QueuedJobs(jobs, agents[reply.agent].orgId, "rework") = {}

\* A backlog job is claimed while a job waits in the paused rework queue.
C5_Witness ==
  /\ reply.op = "preprocess" /\ reply.jobId # NoJob /\ reply.queueType = "backlog"
  /\ QueuedJobs(jobs, agents[reply.agent].orgId, "rework") # {}

C8_ReprioritizePermutation ==
  [][\A id \in JobIds, o \in Orgs, p \in 0..MaxPosition :
       (/\ Latest(jobs, id, o) # {}
        /\ Row(jobs, id).status = "queued"
        /\ Row(jobs, id).queueType \in QueueTypes
        /\ Reprioritize(id, o, p))
       => LET j == Row(jobs, id)
              Q == QueuedJobs(jobs, o, j.queueType)
              Q2 == QueuedJobs(jobs', o, j.queueType)
              n == Cardinality(Q)
          IN /\ {r.id : r \in Q2} = {r.id : r \in Q}
             /\ {r.orderInQueue : r \in Q2} = 0..(n - 1)
             /\ Row(jobs', id).orderInQueue = (IF p < n - 1 THEN p ELSE n - 1)
             /\ \A x, y \in Q \ {j} :
                  x.orderInQueue < y.orderInQueue
                  => Row(jobs', x.id).orderInQueue < Row(jobs', y.id).orderInQueue]_vars

C10_OfflineAfterThreeFailures ==
  [][\A a \in AgentIds :
       (/\ agents[a].status = "active"
        /\ steps' # steps
        /\ reply'.op = "pingAgentViaStream" /\ reply'.agent = a
        /\ reply'.code = "failure"
        /\ agents'[a].consecutiveFailures \in {1, 2})
       => agents'[a].status = "active"]_vars

(* ======================= properties of the agents ====================== *)

\* C11: an agent whose consecutive_failures is 3 or more is offline (a
\* successful ping, reconnect or registration sets the counter back to 0, so
\* it is the only way out of offline that the property allows).
C11_ThreeFailuresOffline ==
  \A a \in AgentIds :
    agents[a].consecutiveFailures >= 3 => agents[a].status = "offline"

\* C12: a reconnect attempt or a status update that takes an agent offline
\* while its schedules are running asks the workflow engine to pause them.
C12_OfflinePausesSchedules ==
  [][\A a \in AgentIds :
       (/\ agents[a].status # "offline"
        /\ agents'[a].status = "offline"
        /\ schedules[a] = "running"
        /\ reply'.op \in {"POST /agents/:id/reconnect", "PUT /agents/:id"})
       => (reply'.agent = a /\ reply'.hook = "pause")]_vars

\* C17: an agent whose status is active has consecutive_failures = 0.
C17_ActiveHasNoFailures ==
  \A a \in DOMAIN agents :
    agents[a].status = "active" => agents[a].consecutiveFailures = 0

\* C18: no two agent rows of the same org have the same host.
C18_OneAgentPerOrgHost ==
  \A a, b \in DOMAIN agents :
    (agents[a].orgId = agents[b].orgId /\ agents[a].host = agents[b].host) => a = b

\* C19: a registration whose key hash matches no stored key ends at once with
\* success = false and empty agentId and orgId; it writes no agent row, asks
\* for no schedule, and takes no further step.
C19_InvalidKeyRejected ==
  [][\A r \in RegIds :
       /\ \A k \in ApiKeys, h \in RegHosts :
            ((\A row \in apiKeys : row.keyHash # hashApiKey(k)) /\ RegStart(r, k, h))
            => (/\ reg'[r].pc = "done"
                /\ reg'[r].success = FALSE
                /\ reg'[r].agentId = ""
                /\ reg'[r].orgId = ""
                /\ reg'[r].hook = "none"
                /\ reply'.hook = "none"
                /\ agents' = agents
                /\ schedules' = schedules)
       /\ (reg[r].pc = "done" /\ ~reg[r].success) => reg'[r] = reg[r]]_vars

\* A registration with the key that was never issued was rejected while
\* another one, with the stored key, went on to write its agent row.
C19_Witness ==
  \E r, q \in RegIds :
    /\ reg[r].pc = "done" /\ reg[r].apiKey = "k2" /\ ~reg[r].success
    /\ reg[q].pc \in {"hook", "done"} /\ reg[q].apiKey = "k1"

\* C20: the write of a registration leaves the agent row active with
\* consecutive_failures = 0, and when startAgentSchedules then throws the call
\* still returns success = true with that agent id and the row is not touched.
C20_HookFailureKeepsRegistration ==
  [][\A r \in RegIds :
       /\ RegWrite(r)
          => (/\ reg'[r].agentId \in DOMAIN agents'
              /\ agents'[reg'[r].agentId].status = "active"
              /\ agents'[reg'[r].agentId].consecutiveFailures = 0)
       /\ (reg[r].hook = "start" /\ RegHook(r, FALSE))
          => (/\ reg'[r].pc = "done"
              /\ reg'[r].success = TRUE
              /\ reg'[r].agentId = reg[r].agentId
              /\ reg'[r].agentId \in DOMAIN agents
              /\ agents' = agents)]_vars

\* A registration whose schedule request threw has returned, and its agent row
\* is active without failures.
C20_Witness ==
  \E r \in RegIds :
    /\ reg[r].pc = "done" /\ reg[r].threw
    /\ reg[r].agentId \in DOMAIN agents
    /\ agents[reg[r].agentId].status = "active"
    /\ agents[reg[r].agentId].consecutiveFailures = 0

(* ------------------------ properties of PUT /jobs/:id ------------------ *)

\* C13: a PUT with status = queued, queue_type = rework and a longer
\* user_comments list writes a new row with the next version whose two log
\* columns are empty, leaves the superseded row's logs as they were, and puts
\* the new version at the tail of the rework queue (its position is the number
\* of other jobs queued in rework).
C13_RetryClearsLogs ==
  [][\A id \in JobIds, o \in Orgs, req \in RetryRequests :
       (/\ Latest(jobs, id, o) # {}
        /\ req.status = "queued"
        /\ req.queue_type = "rework"
        /\ \E n \in req.user_comments : n > Row(jobs, id).userComments
        /\ PutJob(id, o, req))
       => LET cur == Row(jobs, id)
              new == Row(jobs', id)
          IN /\ new.version = cur.version + 1
             /\ new.codeGenerationLogs = Null
             /\ new.codeVerificationLogs = Null
             /\ \E r \in jobs' : /\ r.id = id
                                 /\ r.version = cur.version
                                 /\ r.codeGenerationLogs = cur.codeGenerationLogs
                                 /\ r.codeVerificationLogs = cur.codeVerificationLogs
             /\ new.status = "queued"
             /\ new.queueType = "rework"
             /\ new.orderInQueue =
                  Cardinality(QueuedJobs(jobs, o, "rework") \ {cur})]_vars

\* C14: a PUT that asks for status = in-progress on a job whose current status
\* is queued is answered 400 and changes nothing: no row is inserted or
\* updated, and no queue position of any job changes.
C14_QueuedToInProgressRejected ==
  [][\A id \in JobIds, o \in Orgs, req \in PutRequests :
       (/\ Latest(jobs, id, o) # {}
        /\ req.status = "in-progress"
        /\ Row(jobs, id).status = "queued"
        /\ PutJob(id, o, req))
       => (/\ reply'.code = "400"
           /\ jobs' = jobs
           /\ agents' = agents
           /\ queueStatus' = queueStatus)]_vars

\* A PUT on a queued job was just answered 400 while another job is queued too.
C14_Witness ==
  /\ reply.op = "PUT /jobs/:id" /\ reply.code = "400"
  /\ \E r \in LatestRows(jobs) : r.id = reply.jobId /\ r.status = "queued"
  /\ \E r \in LatestRows(jobs) : r.id # reply.jobId /\ r.status = "queued"

(* -------------------------- properties of job rows --------------------- *)

\* C15: every latest-version job whose status is not queued has queue_type =
\* none and order_in_queue = -1.
C15_NotQueuedHasNoQueue ==
  \A r \in LatestRows(jobs) :
    r.status # "queued" => (r.queueType = Null /\ r.orderInQueue = -1)

\* C16: a latest-version job has an agent_id if and only if its status is
\* in-progress.
C16_AgentIffInProgress ==
  \A r \in LatestRows(jobs) :
    (r.agentId # Null) <=> (r.status = "in-progress")

(* ---------------------- properties of the queue moves ------------------ *)

\* C21: a PUT that changes user_acceptance_status to reviewed_and_asked_rework
\* leaves the job's latest version queued at the tail of the rework queue (its
\* position is the number of other jobs queued in rework), whatever its status
\* was; a job that was queued in backlog leaves backlog and the backlog jobs
\* behind it move up by one.
C21_ReworkRequestQueuesAtTail ==
  [][\A id \in JobIds, o \in Orgs, req \in PutRequests :
       (/\ Latest(jobs, id, o) # {}
        /\ req.user_acceptance_status = Rework
        /\ Row(jobs, id).userAcceptanceStatus # Rework
        /\ PutJob(id, o, req))
       => LET cur == Row(jobs, id)
              new == Row(jobs', id)
          IN /\ new.status = "queued"
             /\ new.queueType = "rework"
             /\ new.orderInQueue = Cardinality(QueuedJobs(jobs, o, "rework") \ {cur})
             /\ (cur.status = "queued" /\ cur.queueType = "backlog")
                => \A r \in QueuedJobs(jobs, o, "backlog") \ {cur} :
                     /\ Row(jobs', r.id).status = "queued"
                     /\ Row(jobs', r.id).queueType = "backlog"
                     /\ Row(jobs', r.id).orderInQueue =
                          IF r.orderInQueue > cur.orderInQueue
                          THEN r.orderInQueue - 1 ELSE r.orderInQueue]_vars

\* C22: a PUT that changes status to queued from another status puts the job
\* at the tail of the queue the request names, or else of rework when its
\* acceptance status is reviewed_and_asked_rework and of backlog otherwise: the
\* new order_in_queue is the number of jobs queued there before the update.
C22_RequeueAtTail ==
  [][\A id \in JobIds, o \in Orgs, req \in PutRequests :
       (/\ Latest(jobs, id, o) # {}
        /\ req.status = "queued"
        /\ Row(jobs, id).status # "queued"
        /\ PutJob(id, o, req))
       => LET cur == Row(jobs, id)
              new == Row(jobs', id)
              target == IF req.queue_type # Undefined THEN req.queue_type
                        ELSE IF cur.userAcceptanceStatus = Rework THEN "rework"
                        ELSE "backlog"
          IN /\ new.status = "queued"
             /\ new.queueType = target
             /\ new.orderInQueue = Cardinality(QueuedJobs(jobs, o, target))]_vars

\* C23: archiving a queued job takes it out of its queue: afterwards the
\* archived job has queue_type = none and order_in_queue = -1, and the jobs
\* that remain queued in that (org, queue) have the positions 0 .. n-2.
C23_ArchiveLeavesQueue ==
  [][\A id \in JobIds, o \in Orgs :
       (/\ Latest(jobs, id, o) # {}
        /\ Row(jobs, id).status = "queued"
        /\ Row(jobs, id).queueType \in QueueTypes
        /\ ArchiveJob(id, o))
       => LET cur == Row(jobs, id)
              new == Row(jobs', id)
              rest == QueuedJobs(jobs', o, cur.queueType)
          IN /\ new.status = "archived"
             /\ new.queueType = Null
             /\ new.orderInQueue = -1
             /\ Cardinality(rest) = Cardinality(QueuedJobs(jobs, o, cur.queueType)) - 1
             /\ {r.orderInQueue : r \in rest} = 0..(Cardinality(rest) - 1)]_vars

\* C24: POST /jobs/:id/execute on a job whose latest version is not queued with
\* a queue type is answered 400 and changes no job; when it is accepted, the
\* job was queued with a queue type, it leaves the queue (queue_type = none,
\* order_in_queue = -1), every job behind it moves up by one, and the positions
\* that remain in that (org, queue) are 0 .. n-2.
C24_ExecuteFromQueue ==
  [][\A id \in JobIds, o \in Orgs, e, b \in BOOLEAN :
       (Latest(jobs, id, o) # {} /\ ExecuteJob(id, o, e, b))
       => LET cur == Row(jobs, id)
              new == Row(jobs', id)
              inQueue == cur.status = "queued" /\ cur.queueType \in QueueTypes
              rest == QueuedJobs(jobs', o, cur.queueType)
          IN /\ ~inQueue => (reply'.code = "400" /\ jobs' = jobs)
             /\ reply'.code = "202"
                => (/\ inQueue
                    /\ new.queueType = Null
                    /\ new.orderInQueue = -1
                    /\ \A r \in QueuedJobs(jobs, o, cur.queueType) \ {cur} :
                         /\ Row(jobs', r.id).status = "queued"
                         /\ Row(jobs', r.id).queueType = cur.queueType
                         /\ Row(jobs', r.id).orderInQueue =
                              IF r.orderInQueue > cur.orderInQueue
                              THEN r.orderInQueue - 1 ELSE r.orderInQueue
                    /\ {r.orderInQueue : r \in rest} = 0..(Cardinality(rest) - 1))]_vars

(* ------------------------ properties of the dispatch ------------------- *)

\* C25: at most one job of an organization is in-progress at any time.
C25_OneInProgressPerOrg ==
  \A o \in Orgs :
    Cardinality({r \in LatestRows(jobs) : r.orgId = o /\ r.status = "in-progress"}) <= 1

C29_InactiveAgentDoesNothing ==
  [][\A a \in AllAgentIds :
       (/\ (a \notin DOMAIN agents \/ agents[a].status # "active")
        /\ Preprocess(a))
       => (/\ reply'.jobId = NoJob
           /\ reply'.queueType = Null
           /\ reply'.orgId = Null
           /\ jobs' = jobs
           /\ agents' = agents)]_vars

\* An agent that is not active was just served while a job it had claimed is
\* still in progress and another job waits in a queue.
C29_Witness ==
  /\ reply.op = "preprocess"
  /\ reply.agent \in DOMAIN agents
  /\ agents[reply.agent].status # "active"
  /\ reply.jobId = NoJob
  /\ \E r \in LatestRows(jobs) : r.status = "in-progress" /\ r.agentId = reply.agent
  /\ \E r \in LatestRows(jobs) : r.status = "queued" /\ r.queueType \in QueueTypes

\* C30: a firing of queueMonitorWorkflow goes on to start the child workflow
\* exactly when Preprocess returned a job id (with its queue type and org id),
\* and starts it under the id job-execution-{job id}; it returns
\* processed = true only when the child completed; when the child cannot be
\* started or fails, the firing does not fail but returns processed = false with
\* the job id; when Preprocess returned no job it starts no child and returns
\* processed = false.
C30_MonitorStartsChildForJob ==
  [][\A a \in AgentIds :
       /\ (MonitorPreprocess(a) /\ reply'.code # "error")
          => (/\ (wf'[a].pc = "process")
                 <=> (reply'.jobId # NoJob /\ reply'.queueType # Null /\ reply'.orgId # Null)
              /\ reply'.jobId = NoJob
                 => (/\ wf'[a].pc = "done"
                     /\ wf'[a].processed = FALSE
                     /\ wf'[a].jobId = NoJob)
              /\ children' = children)
       /\ (wf[a].pc = "process" /\ wf'[a] # wf[a])
          => \/ /\ children' = children \cup {<<"job-execution", wf[a].result.jobId>>}
                /\ children' # children
                /\ wf'[a].pc = "child"
             \/ /\ children' = children
                /\ wf'[a].pc = "done"
                /\ wf'[a].processed = FALSE
                /\ wf'[a].jobId = wf[a].result.jobId
       /\ \A completed \in BOOLEAN :
            MonitorChildEnds(a, completed)
            => (/\ wf'[a].pc = "done"
                /\ wf'[a].processed = completed
                /\ wf'[a].jobId = wf[a].result.jobId)
       /\ (wf'[a].processed /\ wf'[a] # wf[a]) => wf[a].pc = "child"
       /\ (wf'[a].pc = "failed" /\ wf'[a] # wf[a]) => wf[a].pc \notin {"process", "child"}
       /\ (children' # children /\ children \subseteq children')
          => \E b \in AgentIds : wf[b].pc = "process" /\ wf'[b].pc = "child"]_vars

\* One firing returned processed = true after its child completed, another
\* returned processed = false with the job id of the child that failed.
C30_Witness ==
  \E a, b \in AgentIds :
    /\ wf[a].pc = "done" /\ wf[a].processed /\ wf[a].jobId # NoJob
    /\ wf[b].pc = "done" /\ ~wf[b].processed /\ wf[b].jobId # NoJob

(* --------------------- properties of the reconciliation ---------------- *)

C32_QueuedJobIsReachable ==
  \A r \in LatestRows(jobs) :
    r.status = "queued" => (r.queueType \in QueueTypes /\ r.orderInQueue >= 0)

\* C33: when scheduling the Job-Execution workflow fails inside
\* POST /jobs/:id/execute, the request returns an error and no job row has
\* changed: the job is still queued in its queue at its position, and so are
\* the other jobs of that queue.
C33_ExecuteFailureChangesNothing ==
  [][\A id \in JobIds, o \in Orgs, e \in BOOLEAN :
       (/\ Latest(jobs, id, o) # {}
        /\ Row(jobs, id).status = "queued"
        /\ Row(jobs, id).queueType \in QueueTypes
        /\ ~e
        /\ ExecuteJob(id, o, e, FALSE))
       => (reply'.code = "500" /\ jobs' = jobs)]_vars

\* C34: queue membership counts only latest versions.  Every job has at most
\* one row that is queued in a queue, and that row is its latest version; the
\* next position of a queue is the number of jobs whose latest version is
\* queued in it; and the rows the queue loop of Preprocess selects from are
\* latest-version rows only.
C34_QueueCountsLatestVersions ==
  /\ \A r, s \in jobs :
       (/\ r.id = s.id
        /\ r.status = "queued" /\ r.queueType \in QueueTypes
        /\ s.status = "queued" /\ s.queueType \in QueueTypes) => r = s
  /\ \A o \in Orgs, q \in QueueTypes :
       /\ getNextQueuePosition(jobs, o, q) = Cardinality(QueuedJobs(jobs, o, q))
       /\ NextJobs(jobs, o, q) \subseteq LatestRows(jobs)

\* C35: a Preprocess invocation writes latest-version rows only, and only those
\* of the jobs it resets or claims: every older version row, and every row of
\* a job that was not in progress and is not the job returned, is in the table
\* afterwards with its status, agent_id and updated_at as before.
C35_ClaimAndResetWriteLatestRowOnly ==
  [][\A a \in AgentIds :
       Preprocess(a) =>
         \A r \in jobs :
           (\/ r \notin LatestRows(jobs)
            \/ (r.status # "in-progress" /\ r.id # reply'.jobId))
           => r \in jobs']_vars

(* ------------- POST /jobs, one database statement per step -------------- *)

\* The request reads the next backlog position of its org:
\* nextBacklogPosition = await getNextQueuePosition(user.orgId, 'backlog').
CreateCount(c, orgId) ==
  /\ cr[c].pc = "idle"
  /\ \A d \in CrIds : d < c => cr[d].pc # "idle"
  /\ cr' = [cr EXCEPT ![c] = [pc |-> "insert", orgId |-> orgId,
                              nextBacklogPosition |->
                                getNextQueuePosition(jobs, orgId, "backlog")]]
  /\ Served
  /\ UNCHANGED <<jobs, agents, queueStatus, reply, inv, rp, schedules, reg, wf, children>>

\* The request inserts version 1 of its job at the position it read, and replies.
CreateInsert(c) ==
  /\ cr[c].pc = "insert"
  /\ \E id \in JobIds :
       /\ \A r \in jobs : r.id # id
       /\ \A k \in JobIds : k < id => \E r \in jobs : r.id = k
       /\ jobs' = jobs \cup
            {NewJob(id, 1, cr[c].orgId, "queued", "backlog",
                    cr[c].nextBacklogPosition, "not_reviewed", "p1", 0)}
       /\ reply' = Reply("POST /jobs", Null, "201", id, Null)
  /\ cr' = [cr EXCEPT ![c] = CrIdle]
  /\ UNCHANGED <<agents, queueStatus, inv, rp, steps, schedules, reg, wf, children>>

\* Overlapping POST /jobs requests and nothing else: every statement that
\* touches the backlog is the count or the insert of one of them.
NextCreate ==
  \/ \E c \in CrIds, o \in Orgs : CreateCount(c, o)
  \/ \E c \in CrIds : CreateInsert(c)

SpecCreate == Init /\ [][NextCreate]_vars

\* C36: two POST /jobs requests of one org whose count and insert statements
\* interleave leave the org's backlog with distinct positions, contiguous
\* from 0: the positions of the n queued jobs are exactly 0 .. n-1.
C36_ConcurrentCreatesGetDistinctPositions ==
  \A o \in Orgs :
    LET Q == QueuedJobs(jobs, o, "backlog")
    IN /\ \A r, s \in Q : r.orderInQueue = s.orderInQueue => r = s
       /\ {r.orderInQueue : r \in Q} = 0 .. (Cardinality(Q) - 1)

\* C37: a reconnect attempt whose ping fails leaves the agent's status as it
\* was before the attempt: an offline agent stays offline, and an agent that
\* was active is not turned offline by the one failed ping.
C37_FailedReconnectKeepsStatus ==
  [][\A a \in AgentIds, ok \in BOOLEAN :
       ReconnectAgent(a, FALSE, ok) => agents'[a].status = agents[a].status]_vars

(* --------- dispatch with the Job-Execution workflow's final write ------- *)

\* Job-Execution, step 5: the job's status becomes completed, or failed; the
\* write goes to the latest version of the job.
SetJobStatus(J, id, status) ==
  {IF r.id = id /\ r \in LatestRows(J)
   THEN [r EXCEPT !.status = status, !.old = FALSE]
   ELSE r : r \in J}

\* A firing of the agent's schedule, not counted against MaxSteps: schedules
\* fire for as long as they run.
DispatchFires(a) ==
  /\ schedules[a] = "running"
  /\ PreprocessStatements(a)
  /\ MonitorResult(a)
  /\ UNCHANGED steps

\* The child workflow writes the job's final status and returns to the firing.
JobExecutionEnds(a, completed) ==
  /\ ChildReturns(a, completed)
  /\ jobs' = SetJobStatus(jobs, wf[a].result.jobId,
                          IF completed THEN "completed" ELSE "failed")

\* The engine is up: a child start fails only on a workflow id that is running.
NextLive ==
  \/ \E o \in Orgs : CreateJob(o)
  \/ Tick
  \/ \E a \in AgentIds : DispatchFires(a)
  \/ \E a \in AgentIds : MonitorStartChild(a, TRUE)
  \/ \E a \in AgentIds, completed \in BOOLEAN : JobExecutionEnds(a, completed)

\* Schedules keep firing, a claimed job's child is started, and a started
\* Job-Execution finishes.
Fairness ==
  \A a \in AgentIds :
    /\ WF_vars(DispatchFires(a))
    /\ WF_vars(MonitorStartChild(a, TRUE))
    /\ WF_vars(\E completed \in BOOLEAN : JobExecutionEnds(a, completed))

SpecLive == Init /\ [][NextLive]_vars /\ Fairness

\* C38: liveness of dispatch.  With schedules that keep firing, no queue paused
\* and every started Job-Execution finishing, every job queued in backlog or
\* rework eventually reaches completed or failed, the queues are eventually
\* empty for good, and jobs are claimed in the order they were created: a
\* firing that returns a job leaves no job created before it queued.
C38_DispatchLiveness ==
  /\ \A id \in JobIds :
       (\E r \in LatestRows(jobs) :
          r.id = id /\ r.status = "queued" /\ r.queueType \in QueueTypes)
       ~> (\E r \in LatestRows(jobs) :
             r.id = id /\ r.status \in {"completed", "failed"})
  /\ <>[](\A o \in Orgs, q \in QueueTypes : QueuedJobs(jobs, o, q) = {})
  /\ [][\A a \in AgentIds :
          (DispatchFires(a) /\ reply'.jobId # NoJob)
          => \A k \in JobIds, r \in LatestRows(jobs') :
               (k < reply'.jobId /\ r.id = k) => r.status # "queued"]_vars

====
